---- MODULE Spec2Model ----
(***************************************************************************)
(* ctx-tui (main.go): a file tree that is loaded lazily, reloaded on       *)
(* filesystem change events, selected with cascade, flattened for the      *)
(* list view and serialised into a prompt on confirmation.                 *)
(*                                                                         *)
(* A node is identified by its path: loadChildren replaces a directory's   *)
(* children wholesale, so the tree reachable from the root holds at most   *)
(* one node per path.  The tree is a function from the paths of the nodes  *)
(* reachable from the root to their fields; a node's parent is Dir(path).  *)
(***************************************************************************)
EXTENDS Integers, Sequences, FiniteSets, TLC

VARIABLES
    disk,           \* filesystem: the entries that exist below the root
    unreadable,     \* filesystem: directories whose ReadDir fails (permissions)
    tree,           \* m.root and every node reachable from it
    watcher,        \* m.watcher: the directories registered with watcher.Add
    flatItems,      \* m.flatItems (= the items of m.list)
    settingFilter,  \* m.list.SettingFilter()
    focus,          \* m.focus
    err,            \* m.err
    prompt,         \* m.prompt
    quitting,       \* m.quitting
    ended,          \* Update has returned tea.Quit
    events,         \* watcher.Events: change events offered, not yet received
    errors,         \* watcher.Errors: errors offered, not yet received
    listeners,      \* outstanding watchCmd commands blocked in their select
    last,           \* history: the step taken last
    wholesale       \* history: the directory toggled on by the last tree step

vars == <<disk, unreadable, tree, watcher, flatItems, settingFilter, focus, err,
          prompt, quitting, ended, events, errors, listeners,
          last, wholesale>>

(***************************************************************************)
(* Bounds of the model.                                                    *)
(***************************************************************************)
MaxPending == 1     \* change events (and errors) offered by the watcher, not yet received

(***************************************************************************)
(* sessionState constants.                                                 *)
(***************************************************************************)
fileTreeView == 0
textAreaView == 1
acceptView == 2

(***************************************************************************)
(* Paths are sequences of names.  The filesystem below the root can hold:  *)
(*   r/a (directory), r/a/y (directory), r/a/y/z (file), r/b (file).      *)
(***************************************************************************)
Root == <<"r">>
PathA == <<"r", "a">>
PathB == <<"r", "b">>
PathY == <<"r", "a", "y">>
PathZ == <<"r", "a", "y", "z">>
Universe == {PathA, PathB, PathY, PathZ}
DirPaths == {PathA, PathY}
ChmodDirs == {PathA}      \* the directories whose permissions the model changes
Volatile == {PathY, PathZ}    \* the entries the model creates and removes
NameOrder == <<"a", "b", "y", "z">>
NoNode == <<>>
NoPrompt == <<>>
NoError == "nil"

Range(s) == {s[i] : i \in 1..Len(s)}

\* filepath.Dir, filepath.Base, filepath.Join on paths
Dir(p) == SubSeq(p, 1, Len(p) - 1)
Base(p) == p[Len(p)]
Join(d, name) == Append(d, name)

\* f.IsDir() of a directory entry
EntryIsDir(p) == p \in DirPaths

\* os.ReadDir(d): the entries of d sorted by filename, or an error
ReadDir(d) ==
    IF (d = Root \/ (d \in disk /\ EntryIsDir(d))) /\ d \notin unreadable
    THEN [ok |-> TRUE,
          names |-> SelectSeq(NameOrder, LAMBDA nm : Join(d, nm) \in disk)]
    ELSE [ok |-> FALSE, names |-> <<>>]

\* os.ReadFile(p) as generatePrompt uses it
FileContent(p) == IF p \in disk THEN "content" ELSE "[Binary file]"

(***************************************************************************)
(* The tree.                                                               *)
(***************************************************************************)
NewNode(isDir) ==
    [isDir |-> isDir, children |-> <<>>, expanded |-> FALSE,
     selected |-> FALSE, childrenLoaded |-> FALSE]

\* the nodes reachable from n through children lists, n excluded
RECURSIVE Descendants(_, _)
Descendants(t, n) ==
    UNION {{c} \cup Descendants(t, c) : c \in Range(t[n].children)}

\* func (n *node) toggleSelect(on bool)
RECURSIVE toggleSelect(_, _, _)
RECURSIVE toggleChildren(_, _, _, _)
toggleChildrenOneLevel(t, cs, i, on) ==
    [q \in DOMAIN t |-> IF q \in Range(cs) THEN [t[q] EXCEPT !.selected = on]
                        ELSE t[q]]
toggleSelectNoCascade(t, n, on) == [t EXCEPT ![n].selected = on]
toggleSelectWithParent(t, n, on) ==
    [q \in DOMAIN t |->
        IF q = n \/ q = Dir(n) \/ q \in Descendants(t, n)
        THEN [t[q] EXCEPT !.selected = on] ELSE t[q]]
toggleChildren(t, cs, i, on) ==
    IF i > Len(cs) THEN t
    ELSE toggleChildren(toggleSelect(t, cs[i], on), cs, i + 1, on)
toggleSelect(t, n, on) ==
    LET t1 == [t EXCEPT ![n].selected = on]
    IN  IF t[n].isDir THEN toggleChildren(t1, t[n].children, 1, on) ELSE t1

\* func loadChildren(n *node, watcher *fsnotify.Watcher)
loadChildrenAppend(t, w, n) ==
    LET rd == ReadDir(n)
        kids == [i \in 1..Len(rd.names) |-> Join(n, rd.names[i])]
    IN  IF ~rd.ok
        THEN [tree |-> t, watcher |-> w, ok |-> FALSE]
        ELSE [tree |-> [q \in DOMAIN t \cup Range(kids) |->
                          IF q = n
                          THEN [t[n] EXCEPT !.children = t[n].children \o kids,
                                            !.childrenLoaded = TRUE]
                          ELSE IF q \in Range(kids)
                               THEN NewNode(EntryIsDir(q))
                               ELSE t[q]],
              watcher |-> w \cup {k \in Range(kids) : EntryIsDir(k)},
              ok |-> TRUE]
loadChildrenMarkOnError(t, w, n) ==
    LET rd == ReadDir(n)
        kids == [i \in 1..Len(rd.names) |-> Join(n, rd.names[i])]
        keep == DOMAIN t \ Descendants(t, n)
    IN  IF ~rd.ok
        THEN [tree |-> [t EXCEPT ![n].childrenLoaded = TRUE],
              watcher |-> w, ok |-> FALSE]
        ELSE [tree |-> [q \in keep \cup Range(kids) |->
                          IF q = n
                          THEN [t[n] EXCEPT !.children = kids,
                                            !.childrenLoaded = TRUE]
                          ELSE IF q \in Range(kids)
                               THEN NewNode(EntryIsDir(q))
                               ELSE t[q]],
              watcher |-> w \cup {k \in Range(kids) : EntryIsDir(k)},
              ok |-> TRUE]
loadChildrenKeep(t, w, n) ==
    LET rd == ReadDir(n)
        kids == [i \in 1..Len(rd.names) |-> Join(n, rd.names[i])]
        gone == {q \in Descendants(t, n) :
                    \A k \in Range(kids) : q # k /\ ~(Len(k) < Len(q) /\ SubSeq(q, 1, Len(k)) = k)}
    IN  IF ~rd.ok
        THEN [tree |-> t, watcher |-> w, ok |-> FALSE]
        ELSE [tree |-> [q \in (DOMAIN t \ gone) \cup Range(kids) |->
                          IF q = n
                          THEN [t[n] EXCEPT !.children = kids,
                                            !.childrenLoaded = TRUE]
                          ELSE IF q \in DOMAIN t
                               THEN t[q]
                               ELSE NewNode(EntryIsDir(q))],
              watcher |-> w \cup {k \in Range(kids) : EntryIsDir(k)},
              ok |-> TRUE]
loadChildren(t, w, n) ==
    LET rd == ReadDir(n)
        kids == [i \in 1..Len(rd.names) |-> Join(n, rd.names[i])]
        keep == DOMAIN t \ Descendants(t, n)
    IN  IF ~rd.ok
        THEN [tree |-> t, watcher |-> w, ok |-> FALSE]
        ELSE [tree |-> [q \in keep \cup Range(kids) |->
                          IF q = n
                          THEN [t[n] EXCEPT !.children = kids,
                                            !.childrenLoaded = TRUE]
                          ELSE IF q \in Range(kids)
                               THEN NewNode(EntryIsDir(q))
                               ELSE t[q]],
              watcher |-> w \cup {k \in Range(kids) : EntryIsDir(k)},
              ok |-> TRUE]

\* func flatten(root *node) []list.Item
RECURSIVE recurse(_, _, _)
RECURSIVE recurseAll(_, _, _, _)
recurseAllReversed(t, cs, i, d) ==
    IF i > Len(cs) THEN <<>>
    ELSE recurseAll(t, cs, i + 1, d) \o recurse(t, cs[i], d)
recurseAll(t, cs, i, d) ==
    IF i > Len(cs) THEN <<>>
    ELSE recurse(t, cs[i], d) \o recurseAll(t, cs, i + 1, d)
recurseIgnoreExpanded(t, n, d) ==
    <<[node |-> n, depth |-> d]>> \o recurseAll(t, t[n].children, 1, d + 1)
recurse(t, n, d) ==
    <<[node |-> n, depth |-> d]>>
        \o (IF t[n].expanded THEN recurseAll(t, t[n].children, 1, d + 1)
            ELSE <<>>)
flattenWithRoot(t) == recurse(t, Root, 0)
flatten(t) == recurseAll(t, t[Root].children, 1, 0)

\* func findNode(n *node, path string) *node
RECURSIVE findNode(_, _, _)
RECURSIVE findNodeIn(_, _, _, _)
findNodeIn(t, cs, i, path) ==
    IF i > Len(cs) THEN NoNode
    ELSE LET f == findNode(t, cs[i], path)
         IN  IF f # NoNode THEN f ELSE findNodeIn(t, cs, i + 1, path)
findNode(t, n, path) ==
    IF n = path THEN n
    ELSE IF t[n].childrenLoaded THEN findNodeIn(t, t[n].children, 1, path)
    ELSE NoNode

(***************************************************************************)
(* The serializer.  A line of the tree segment is prefix + glyph + name;   *)
(* the prefix is kept as its sequence of four-character pieces, and the    *)
(* node the line was written for is kept beside it.  The box-drawing       *)
(* glyphs are written in ASCII: "+-- " last child, "|-- " other child,     *)
(* "|   " continuation.                                                    *)
(***************************************************************************)
\* func hasSelected(n *node) bool
RECURSIVE hasSelected(_, _)
hasSelected(t, n) ==
    IF t[n].selected /\ ~t[n].isDir THEN TRUE
    ELSE IF t[n].childrenLoaded
         THEN \E i \in 1..Len(t[n].children) : hasSelected(t, t[n].children[i])
         ELSE FALSE

\* the filter both generateFileTree and generateTreeRec apply to n.children
keptChildrenAll(t, n) == t[n].children
keptChildren(t, n) ==
    SelectSeq(t[n].children, LAMBDA c : t[c].selected \/ hasSelected(t, c))

\* func generateTreeRec(n *node, prefix string, isLast bool) string
RECURSIVE generateTreeRec(_, _, _, _)
RECURSIVE generateTreeAll(_, _, _, _)
generateTreeAll(t, cs, i, prefix) ==
    IF i > Len(cs) THEN <<>>
    ELSE generateTreeRec(t, cs[i], prefix, i = Len(cs))
             \o generateTreeAll(t, cs, i + 1, prefix)
generateTreeRec(t, n, prefix, isLast) ==
    LET s == [prefix |-> prefix,
              glyph |-> IF isLast THEN "+-- " ELSE "|-- ",
              name |-> Base(n),
              node |-> n]
        prefix2 == Append(prefix, IF isLast THEN "    " ELSE "|   ")
    IN  <<s>> \o generateTreeAll(t, keptChildren(t, n), 1, prefix2)

\* func generateFileTree(root *node) string
generateFileTree(t) == generateTreeAll(t, keptChildren(t, Root), 1, <<>>)

\* collect, the closure of generatePrompt
RECURSIVE collect(_, _)
RECURSIVE collectAll(_, _, _)
collectAll(t, cs, i) ==
    IF i > Len(cs) THEN <<>>
    ELSE collect(t, cs[i]) \o collectAll(t, cs, i + 1)
collectWithDirs(t, n) ==
    (IF t[n].selected THEN <<n>> ELSE <<>>)
        \o (IF t[n].childrenLoaded THEN collectAll(t, t[n].children, 1)
            ELSE <<>>)
collect(t, n) ==
    (IF t[n].selected /\ ~t[n].isDir THEN <<n>> ELSE <<>>)
        \o (IF t[n].childrenLoaded THEN collectAll(t, t[n].children, 1)
            ELSE <<>>)

\* func (m model) generatePrompt() string
generatePrompt(t) ==
    LET selectedFiles == collect(t, Root)
    IN  [fileTree |-> generateFileTree(t),
         files |-> [i \in 1..Len(selectedFiles) |->
                      [path |-> selectedFiles[i],
                       content |-> FileContent(selectedFiles[i])]],
         request |-> "m.textarea.Value()"]

(***************************************************************************)
(* Construction.                                                           *)
(***************************************************************************)
\* the history of the last step: the operation, the node it acted on, the value
\* a toggle set and, for a change event, the event's operation kind; the steps
\* no property asks about are all "other"
Step(op, node, on, evop) == [op |-> op, node |-> node, on |-> on, evop |-> evop]
NoStep(op) == Step(op, NoNode, FALSE, "")

\* the filesystem is a tree: an entry exists only inside an existing directory;
\* the entries outside Volatile are always there
ClosedDisks ==
    {d \in SUBSET Universe :
        /\ Universe \ Volatile \subseteq d
        /\ \A p \in d : Dir(p) = Root \/ Dir(p) \in d}

\* func newModel(path string) model: the root node, its watch, its first load
newModel ==
    LET root == [q \in {Root} |->
                   [isDir |-> TRUE, children |-> <<>>, expanded |-> TRUE,
                    selected |-> FALSE, childrenLoaded |-> FALSE]]
    IN  loadChildren(root, {Root}, Root)

Init ==
    /\ disk \in ClosedDisks
    /\ unreadable = {}
    /\ tree = newModel.tree
    /\ watcher = newModel.watcher
    /\ flatItems = flatten(tree)
    /\ settingFilter = FALSE
    /\ focus = fileTreeView
    /\ err = NoError
    /\ prompt = NoPrompt
    /\ quitting = FALSE
    /\ ended = FALSE
    /\ events = <<>>
    /\ errors = 0
    /\ listeners = 1          \* func (m model) Init(): watchCmd(m.watcher)
    /\ last = NoStep("init")
    /\ wholesale = NoNode

\* m.list.SelectedItem(): an item of the list, index 0 standing for none
SelectedItems == 0..Len(flatItems)

Keys == {"enter", " ", "tab", "/"}
QuitKeys == {"ctrl+c", "q"}

\* m.list.Update(msg) on a key, as far as SettingFilter() goes
listUpdate(filtering, k) ==
    IF filtering THEN k \notin {"enter", "tab"} ELSE k = "/"

\* m.focus after a key that is no quit key
focusAcceptTabToText(f, filtering, k) ==
    IF k # "tab" \/ (f = fileTreeView /\ filtering) THEN f
    ELSE IF f = fileTreeView THEN textAreaView
    ELSE IF f = textAreaView THEN acceptView
    ELSE textAreaView
focusAfterKey(f, filtering, k) ==
    IF f = fileTreeView
    THEN IF ~filtering /\ k = "tab" THEN textAreaView ELSE f
    ELSE IF f = textAreaView
    THEN IF k = "tab" THEN acceptView ELSE f
    ELSE IF k = "tab" THEN fileTreeView ELSE f

\* if m.focus == fileTreeView: the branch of Update that hands keys to the tree
fileTreeBranchAnyFocus(f) == TRUE
fileTreeBranch(f) == f = fileTreeView

\* the condition under which a change event reloads the directory node it names
shouldReloadCollapsed(t, node, op) == node # NoNode /\ op # "Write"
shouldReloadWrite(t, node, op) == node # NoNode /\ t[node].expanded
shouldReload(t, node, op) == node # NoNode /\ t[node].expanded /\ op # "Write"

\* the watchCmd commands Update returns for a message of the given type
armedNone(msg) == 0
armedAlways(msg) == 1
armed(msg) == IF msg \in {"fsEventMsg", "fsErrMsg"} THEN 1 ELSE 0

\* case fsErrMsg: the value m.err = error(msg) stores
fsErrDropped(e) == NoError
fsErrValue(e) == e

fsUnchanged == UNCHANGED <<disk, unreadable>>
\* a message that is no notification receives nothing from the channels
chanUnchanged(msg) ==
    /\ listeners' = listeners + armed(msg)
    /\ UNCHANGED <<events, errors>>

(***************************************************************************)
(* Update, one action per message type and focus.                          *)
(***************************************************************************)
\* case tea.WindowSizeMsg: m.width, m.height and the sizes of the list and the
\* textarea feed View alone and are not kept
UpdateWindowSize ==
    /\ ~ended
    /\ last' = NoStep("other")
    /\ fsUnchanged /\ chanUnchanged("WindowSizeMsg")
    /\ UNCHANGED <<tree, watcher, flatItems, settingFilter, focus, err, prompt,
                   quitting, ended, wholesale>>

\* case tea.KeyMsg: "ctrl+c", "q"
UpdateKeyQuit ==
    /\ ~ended
    /\ \E k \in QuitKeys : TRUE
    /\ quitting' = TRUE
    /\ ended' = TRUE
    /\ last' = NoStep("quit")
    /\ fsUnchanged /\ chanUnchanged("KeyMsg")
    /\ UNCHANGED <<tree, watcher, flatItems, settingFilter, focus, err, prompt, wholesale>>

\* "enter" in fileTreeView on the directory node n
expandToggle(t, w, n) ==
    LET t1 == [t EXCEPT ![n].expanded = ~t[n].expanded]
        load == t1[n].expanded /\ ~t1[n].childrenLoaded
        ld == IF load THEN loadChildren(t1, w, n)
              ELSE [tree |-> t1, watcher |-> w, ok |-> TRUE]
    IN  [tree |-> ld.tree, watcher |-> ld.watcher, read |-> load]

\* case tea.KeyMsg, m.focus == fileTreeView
UpdateKeyFileTree(k, i) ==
    /\ ~ended
    /\ fileTreeBranch(focus)
    /\ LET sel == IF i > 0 THEN flatItems[i].node ELSE NoNode
           handled == ~settingFilter
       IN  /\ IF handled /\ k = "enter" /\ i > 0 /\ tree[sel].isDir
              THEN LET r == expandToggle(tree, watcher, sel)
                   IN  /\ tree' = r.tree
                       /\ watcher' = r.watcher
                       /\ flatItems' = flatten(r.tree)
                       /\ wholesale' = NoNode
                       /\ last' = Step(IF r.read THEN "enterLoad" ELSE "enter", sel, FALSE, "")
              ELSE IF handled /\ k = " " /\ i > 0
              THEN LET on == ~tree[sel].selected
                   IN  /\ tree' = toggleSelect(tree, sel, on)
                       /\ wholesale' = IF on /\ tree[sel].isDir THEN sel ELSE NoNode
                       /\ last' = Step("space", sel, on, "")
                       /\ UNCHANGED <<watcher, flatItems>>
              ELSE /\ last' = NoStep(IF handled /\ k = "tab" THEN "tab" ELSE "other")
                   /\ UNCHANGED <<tree, watcher, flatItems, wholesale>>
           /\ focus' = focusAfterKey(focus, settingFilter, k)
           /\ settingFilter' = listUpdate(settingFilter, k)
    /\ fsUnchanged /\ chanUnchanged("KeyMsg")
    /\ UNCHANGED <<err, prompt, quitting, ended>>

\* case tea.KeyMsg, m.focus == textAreaView
UpdateKeyTextArea(k) ==
    /\ ~ended
    /\ focus = textAreaView
    /\ focus' = focusAfterKey(focus, FALSE, k)
    /\ last' = NoStep(IF k = "tab" THEN "tab" ELSE "other")
    /\ fsUnchanged /\ chanUnchanged("KeyMsg")
    /\ UNCHANGED <<tree, watcher, flatItems, settingFilter, err, prompt, quitting, ended, wholesale>>

\* case tea.KeyMsg, m.focus == acceptView
UpdateKeyAccept(k) ==
    /\ ~ended
    /\ focus = acceptView
    /\ IF k = "enter"
       THEN /\ prompt' = generatePrompt(tree)
            /\ ended' = TRUE
            /\ last' = NoStep("confirm")
            /\ UNCHANGED focus
       ELSE /\ focus' = focusAfterKey(focus, FALSE, k)
            /\ last' = NoStep(IF k = "tab" THEN "tab" ELSE "other")
            /\ UNCHANGED <<prompt, ended>>
    /\ fsUnchanged /\ chanUnchanged("KeyMsg")
    /\ UNCHANGED <<tree, watcher, flatItems, settingFilter, err, quitting, wholesale>>

\* watchCmd receives from w.Events and returns the event as an fsEventMsg; the
\* runtime hands the message to Update, case fsEventMsg, which re-arms watchCmd
UpdateFsEvent ==
    /\ ~ended
    /\ listeners > 0
    /\ events # <<>>
    /\ events' = Tail(events)
    /\ listeners' = (listeners - 1) + armed("fsEventMsg")
    /\ fsUnchanged
    /\ UNCHANGED <<errors, settingFilter, focus, err, prompt, quitting, ended>>
    /\ LET ev == Head(events)
           dir == Dir(ev.name)
           node == findNode(tree, Root, dir)
       IN  IF shouldReload(tree, node, ev.op)
           THEN LET ld == loadChildren(tree, watcher, node)
                IN  /\ last' = Step("fsReload", node, FALSE, ev.op)
                    /\ wholesale' = NoNode
                    /\ watcher' = ld.watcher
                    /\ tree' = ld.tree
                    /\ flatItems' = flatten(ld.tree)
           ELSE /\ last' = Step("fsIgnore", node, FALSE, ev.op)
                /\ UNCHANGED <<tree, watcher, flatItems, wholesale>>

\* watchCmd receives from w.Errors and returns the error as an fsErrMsg; the
\* runtime hands the message to Update, case fsErrMsg, which re-arms watchCmd
UpdateFsErr ==
    /\ ~ended
    /\ listeners > 0
    /\ errors > 0
    /\ errors' = errors - 1
    /\ err' = fsErrValue("watcher error")
    /\ listeners' = (listeners - 1) + armed("fsErrMsg")
    /\ last' = NoStep("fsErr")
    /\ fsUnchanged
    /\ UNCHANGED <<events, tree, watcher, flatItems, settingFilter, focus,
                   prompt, quitting, ended, wholesale>>

(***************************************************************************)
(* The environment: the filesystem changes, and fsnotify offers an event   *)
(* for a change in a directory that is watched.                            *)
(***************************************************************************)
Watched(p) == Dir(p) \in watcher \/ p \in watcher

\* notifications offered by the watcher, not yet received and handled
Pending == Len(events) + errors

\* the event of a change to p, when a watch sees it
Offer(p, op) ==
    IF Watched(p)
    THEN /\ Pending < MaxPending
         /\ events' = Append(events, [name |-> p, op |-> op])
    ELSE UNCHANGED events

envUnchanged ==
    /\ last' = NoStep("other")
    /\ UNCHANGED <<tree, watcher, flatItems, settingFilter, focus, err, prompt,
                   quitting, ended, listeners, wholesale>>

DiskCreate(p) ==
    /\ ~ended
    /\ p \notin disk
    /\ Dir(p) = Root \/ Dir(p) \in disk
    /\ disk' = disk \cup {p}
    /\ Offer(p, "Create")
    /\ UNCHANGED <<unreadable, errors>>
    /\ envUnchanged

DiskRemove(p) ==
    /\ ~ended
    /\ p \in disk
    /\ \A q \in disk : Dir(q) # p
    /\ disk' = disk \ {p}
    /\ unreadable' = unreadable \ {p}
    /\ Offer(p, "Remove")
    /\ UNCHANGED errors
    /\ envUnchanged

DiskWrite(p) ==
    /\ ~ended
    /\ p \in disk
    /\ ~EntryIsDir(p)
    /\ Watched(p)
    /\ Offer(p, "Write")
    /\ UNCHANGED <<disk, unreadable, errors>>
    /\ envUnchanged

\* a change of a directory's attributes: the permission to read a directory of
\* ChmodDirs is taken away or given back
DiskChmod(p) ==
    /\ ~ended
    /\ p \in disk
    /\ Watched(p)
    /\ unreadable' = IF p \in unreadable THEN unreadable \ {p}
                     ELSE unreadable \cup {p}
    /\ Offer(p, "Chmod")
    /\ UNCHANGED <<disk, errors>>
    /\ envUnchanged

WatcherFails ==
    /\ ~ended
    /\ Pending < MaxPending
    /\ errors' = errors + 1
    /\ UNCHANGED <<disk, unreadable, events>>
    /\ envUnchanged

\* a key that is no quit key, with the item SelectedItem() returns when the key
\* is one that reads it
UpdateKeys(ks) ==
    \E k \in ks :
        \/ \E i \in SelectedItems :
             /\ i > 0 => k \in {"enter", " "}
             /\ UpdateKeyFileTree(k, i)
        \/ UpdateKeyTextArea(k)
        \/ UpdateKeyAccept(k)

UpdateKeyMsg == UpdateKeys(Keys)

Next ==
    \/ UpdateWindowSize
    \/ UpdateKeyQuit
    \/ UpdateKeyMsg
    \/ UpdateFsEvent
    \/ UpdateFsErr
    \/ \E p \in Volatile : DiskCreate(p)
    \/ \E p \in Volatile : DiskRemove(p)
    \/ \E p \in Universe : DiskWrite(p)
    \/ \E p \in ChmodDirs : DiskChmod(p)
    \/ WatcherFails

Spec == Init /\ [][Next]_vars

\* The session under a fair runtime: the runtime runs every command Update
\* returns and hands every message to Update, so a watchCmd whose select has a
\* ready channel receives from it.  The user expands, collapses, edits the
\* filter and moves the focus, and selects nothing.
LiveKeys == {"enter", "tab", "/"}
UpdateLiveKeyMsg == UpdateKeys(LiveKeys)

LiveNext ==
    \/ UpdateWindowSize
    \/ UpdateKeyQuit
    \/ UpdateLiveKeyMsg
    \/ UpdateFsEvent
    \/ UpdateFsErr
    \/ \E p \in Volatile : DiskCreate(p)
    \/ \E p \in Volatile : DiskRemove(p)
    \/ \E p \in Universe : DiskWrite(p)
    \/ \E p \in ChmodDirs : DiskChmod(p)
    \/ WatcherFails

\* watchCmd's select, as the channels see it: "case ev := <-w.Events" takes the
\* head of the events, "case err := <-w.Errors" takes an error.  UpdateFsEvent
\* and UpdateFsErr are the only steps that receive, and they are enabled
\* exactly when these are.
ReceiveEvent ==
    /\ ~ended /\ listeners > 0 /\ events # <<>>
    /\ events' = Tail(events)
ReceiveError ==
    /\ ~ended /\ listeners > 0 /\ errors > 0
    /\ errors' = errors - 1

FairSpec ==
    /\ Init /\ [][LiveNext]_vars
    /\ WF_events(ReceiveEvent) /\ WF_errors(ReceiveError)

(***************************************************************************)
(* Vocabulary of the properties.                                           *)
(***************************************************************************)
\* every node of the tree in depth-first pre-order over the children lists
RECURSIVE PreOrder(_, _)
RECURSIVE PreOrderAll(_, _, _)
PreOrderAll(t, cs, i) ==
    IF i > Len(cs) THEN <<>> ELSE PreOrder(t, cs[i]) \o PreOrderAll(t, cs, i + 1)
PreOrder(t, n) == <<n>> \o PreOrderAll(t, t[n].children, 1)

\* the nodes the tree segment lists, in the order of its lines
SegmentNodes(t) ==
    LET lines == generateFileTree(t) IN [i \in 1..Len(lines) |-> lines[i].node]

\* the paths the file-contents segment lists, in order
ContentPaths(p) == [i \in 1..Len(p.files) |-> p.files[i].path]

SelectedBelow(t, n) == {c \in Descendants(t, n) : t[c].selected}

(***************************************************************************)
(* C1  Cascade: right after toggleSelect(D, on) on a directory D, every    *)
(* loaded descendant of D, at any depth, has selected = on.                *)
(***************************************************************************)
C1_Cascade ==
    (last.op = "space" /\ tree[last.node].isDir)
        => /\ tree[last.node].selected = last.on
           /\ \A d \in Descendants(tree, last.node) : tree[d].selected = last.on

\* the directory r/a was toggled off with r/a/y and r/a/y/z loaded below it
C1_Witness ==
    /\ last.op = "space" /\ last.node = PathA /\ ~last.on
    /\ PathZ \in Descendants(tree, PathA)

(***************************************************************************)
(* C2  Pruning, positive half: every directory other than the root that    *)
(* has a loaded descendant with selected = TRUE, file or directory, is     *)
(* listed in the tree segment.                                             *)
(***************************************************************************)
C2_PruningPositive ==
    \A d \in DOMAIN tree \ {Root} :
        (tree[d].isDir /\ SelectedBelow(tree, d) # {})
            => d \in Range(SegmentNodes(tree))

(***************************************************************************)
(* C3  Pruning, negative half: a directory that is not selected and has    *)
(* no selected loaded descendant is not listed in the tree segment, and    *)
(* none of its descendants is.                                             *)
(***************************************************************************)
C3_PruningNegative ==
    \A d \in DOMAIN tree :
        (tree[d].isDir /\ ~tree[d].selected /\ SelectedBelow(tree, d) = {})
            => ({d} \cup Descendants(tree, d)) \cap Range(SegmentNodes(tree)) = {}

\* r/a with r/a/y and r/a/y/z loaded and nothing selected in it is pruned from
\* a segment that lists r/b
C3_Witness ==
    /\ PathA \in DOMAIN tree
    /\ PathZ \in Descendants(tree, PathA)
    /\ ~tree[PathA].selected /\ SelectedBelow(tree, PathA) = {}
    /\ SegmentNodes(tree) = <<PathB>>

(***************************************************************************)
(* C4  The file-contents segment lists exactly the selected non-directory  *)
(* nodes in depth-first pre-order, and the tree segment lists the same     *)
(* files in the same order; the root is in neither.                        *)
(***************************************************************************)
C4_FilesAgree ==
    LET p == generatePrompt(tree)
        isFile(n) == ~tree[n].isDir
        isSelectedFile(n) == tree[n].selected /\ ~tree[n].isDir
    IN  /\ ContentPaths(p) = SelectSeq(PreOrder(tree, Root), isSelectedFile)
        /\ ContentPaths(p) = SelectSeq(SegmentNodes(tree), isFile)
        /\ Root \notin Range(ContentPaths(p)) \cup Range(SegmentNodes(tree))

\* both files are selected, the nested one inside an unselected directory
C4_Witness ==
    /\ ContentPaths(generatePrompt(tree)) = <<PathZ, PathB>>
    /\ ~tree[PathA].selected

(***************************************************************************)
(* C5  Selecting a directory wholesale.  As claimed: when a directory row  *)
(* is toggled on and the session then goes to confirmation and confirms    *)
(* with no other tree action in between, every file the directory holds    *)
(* on disk is selected and listed in the file-contents segment, whether    *)
(* or not the directory was ever expanded.                                 *)
(***************************************************************************)
IsBelow(d, f) == Len(d) < Len(f) /\ SubSeq(f, 1, Len(d)) = d
FilesOnDiskBelow(d) == {f \in disk : ~EntryIsDir(f) /\ IsBelow(d, f)}
ConfirmedWholesale == last.op = "confirm" /\ wholesale # NoNode

C5_WholesaleOnDisk ==
    ConfirmedWholesale
        => \A f \in FilesOnDiskBelow(wholesale) :
               /\ f \in DOMAIN tree
               /\ tree[f].selected
               /\ f \in Range(ContentPaths(prompt))

(***************************************************************************)
(* C5, amended: when a directory row is toggled on and the session then    *)
(* goes to confirmation and confirms with no other tree action and no      *)
(* reload by a change event in between, every file node loaded below the   *)
(* directory is selected and listed in the file-contents segment.          *)
(***************************************************************************)
C5_WholesaleLoaded ==
    ConfirmedWholesale
        => \A f \in Descendants(tree, wholesale) :
               ~tree[f].isDir
                   => tree[f].selected /\ f \in Range(ContentPaths(prompt))

\* r/a was toggled on with r/a/y/z loaded two levels below it, then confirmed
C5_Witness ==
    /\ ConfirmedWholesale /\ wholesale = PathA
    /\ PathZ \in Descendants(tree, PathA)

(***************************************************************************)
(* C6  Freshness: when no change notification is pending and every         *)
(* directory can be read, the children of every expanded, loaded directory *)
(* node whose directory exists are exactly the directory's entries on disk.*)
(***************************************************************************)
EntriesOnDisk(d) == {p \in disk : Dir(p) = d}

C6_Freshness ==
    (Pending = 0 /\ unreadable = {})
        => \A d \in DOMAIN tree :
               (/\ tree[d].isDir /\ tree[d].expanded /\ tree[d].childrenLoaded
                /\ (d = Root \/ d \in disk))
                   => Range(tree[d].children) = EntriesOnDisk(d)

(***************************************************************************)
(* C7  Change routing: a change event that is no pure write, for a path    *)
(* whose parent directory has an expanded node and can be read, leaves     *)
(* that node with exactly one child per entry of the directory on disk; a  *)
(* pure write leaves the tree and the flattened view as they were.         *)
(***************************************************************************)
C7_ChangeRouting ==
    [][UpdateFsEvent =>
         LET ev == Head(events)
             dir == Dir(ev.name)
         IN  /\ (/\ ev.op # "Write"
                 /\ dir \in DOMAIN tree
                 /\ tree[dir].expanded
                 /\ ReadDir(dir).ok)
                    => /\ dir \in DOMAIN tree'
                       /\ tree'[dir].childrenLoaded
                       /\ Range(tree'[dir].children) = EntriesOnDisk(dir)
                       /\ Len(tree'[dir].children) = Cardinality(EntriesOnDisk(dir))
                       /\ \A c \in EntriesOnDisk(dir) :
                              c \in DOMAIN tree' /\ tree'[c].isDir = EntryIsDir(c)
             /\ ev.op = "Write" => (tree' = tree /\ flatItems' = flatItems)
      ]_vars

\* a change event reloaded r/a, which was loaded before and holds r/a/y
C7_Witness ==
    /\ last.op = "fsReload" /\ last.node = PathA /\ last.evop = "Create"
    /\ tree[PathA].children = <<PathY>>

(***************************************************************************)
(* C8  A change event for a path whose parent directory has no node in     *)
(* the tree, or a node that is not expanded, reads no directory and        *)
(* leaves the tree, the watches and the flattened view as they were.       *)
(***************************************************************************)
C8_CollapsedIgnored ==
    [][UpdateFsEvent =>
         LET dir == Dir(Head(events).name)
         IN  (dir \notin DOMAIN tree \/ ~tree[dir].expanded)
                 => /\ last'.op = "fsIgnore"
                    /\ tree' = tree
                    /\ watcher' = watcher
                    /\ flatItems' = flatItems
      ]_vars

\* the creation of r/a/y was notified while r/a was loaded and collapsed, and
\* the node of r/a was left without it
C8_Witness ==
    /\ last.op = "fsIgnore" /\ last.node = PathA /\ last.evop = "Create"
    /\ tree[PathA].childrenLoaded /\ ~tree[PathA].expanded
    /\ PathY \in disk /\ PathY \notin DOMAIN tree

(***************************************************************************)
(* C9  Focus state machine: the focus starts at fileTreeView; it changes   *)
(* only by fileTreeView -> textAreaView -> acceptView -> fileTreeView, on  *)
(* a tab key (in fileTreeView while the filter is not being edited), and   *)
(* such a tab key always advances it.                                      *)
(***************************************************************************)
FocusCycle ==
    {<<fileTreeView, textAreaView>>, <<textAreaView, acceptView>>,
     <<acceptView, fileTreeView>>}
TabKey ==
    \/ UpdateKeyFileTree("tab", 0) /\ ~settingFilter
    \/ UpdateKeyTextArea("tab")
    \/ UpdateKeyAccept("tab")

C9_FocusMachine ==
    /\ focus = fileTreeView
    /\ [][/\ focus' # focus => (TabKey /\ <<focus, focus'>> \in FocusCycle)
          /\ TabKey => <<focus, focus'>> \in FocusCycle
         ]_vars

\* a tab key brought the focus back from acceptView to fileTreeView
C9_Witness == focus = fileTreeView /\ last.op = "tab"

(***************************************************************************)
(* C10  The prompt is produced only by enter in acceptView, and that step  *)
(* ends the session; a quit key can be pressed in every focus state of a   *)
(* running session and ends it with the prompt empty; outside fileTreeView *)
(* only a change event changes the tree.                                   *)
(***************************************************************************)
C10_DocumentOnlyOnConfirm ==
    /\ [](quitting => (ended /\ prompt = NoPrompt))
    /\ [](~ended => ENABLED UpdateKeyQuit)
    /\ [][/\ prompt' # prompt
                => (/\ focus = acceptView
                    /\ UpdateKeyAccept("enter")
                    /\ prompt' = generatePrompt(tree)
                    /\ ended')
          /\ UpdateKeyQuit => (ended' /\ quitting' /\ prompt' = NoPrompt)
          /\ (focus # fileTreeView /\ tree' # tree) => UpdateFsEvent
         ]_vars

\* the session was quit from acceptView with a file selected, and has no prompt
C10_Witness ==
    /\ quitting /\ focus = acceptView /\ prompt = NoPrompt
    /\ collect(tree, Root) # <<>>

(***************************************************************************)
(* C11  A failed directory read is recorded in the session state: right    *)
(* after a first expansion or a change-event reload whose ReadDir failed,  *)
(* the err field of the model holds an error.                              *)
(***************************************************************************)
\* the last step called loadChildren and its ReadDir failed (no step of Update
\* changes the filesystem, so the read fails after the step as it did in it)
FailedLoad == last.op \in {"enterLoad", "fsReload"} /\ ~ReadDir(last.node).ok

C11_FailureRecorded == FailedLoad => err # NoError

C13_RootInvariant ==
    /\ Root \in DOMAIN tree
    /\ tree[Root].isDir /\ tree[Root].expanded /\ ~tree[Root].selected
    /\ \A n \in DOMAIN tree \ {Root} :
           Dir(n) \in DOMAIN tree /\ n \in Range(tree[Dir(n)].children)
    /\ \A i \in 1..Len(flatItems) : flatItems[i].node # Root
    /\ Root \notin Range(SegmentNodes(tree))
    /\ Root \notin Range(ContentPaths(generatePrompt(tree)))
    /\ prompt # NoPrompt
           => /\ \A i \in 1..Len(prompt.fileTree) : prompt.fileTree[i].node # Root
              /\ Root \notin Range(ContentPaths(prompt))

\* a document was rendered that lists files, from a tree shown with nested rows
C13_Witness ==
    /\ last.op = "confirm"
    /\ Len(prompt.files) > 0 /\ Len(prompt.fileTree) > 1
    /\ Len(flatItems) > 2

(***************************************************************************)
(* C14  Single-consumer re-arming: while the session runs there is exactly *)
(* one outstanding watchCmd; a step receives at most one notification,     *)
(* and only the handling of a change event or of a watcher error receives  *)
(* one.                                                                    *)
(***************************************************************************)
C14_SingleListener ==
    /\ [](~ended => listeners = 1)
    /\ [][/\ Pending' < Pending
                => /\ Pending' = Pending - 1
                   /\ UpdateFsEvent \/ UpdateFsErr
          /\ ~(UpdateFsEvent \/ UpdateFsErr) => listeners' = listeners
         ]_vars

\* a watcher error and then a change event were handled, one listener is armed
C14_Witness ==
    /\ last.op = "fsReload" /\ err # NoError
    /\ listeners = 1 /\ ~ended

(***************************************************************************)
(* C15  Liveness of change consumption (FairSpec): a notification offered  *)
(* on a channel of the watcher while the session runs can be received in   *)
(* every focus state, and is eventually received and handled by Update     *)
(* unless the session ends.                                                *)
(***************************************************************************)
C15_ChangeConsumed ==
    /\ []((~ended /\ events # <<>>) => ENABLED UpdateFsEvent)
    /\ []((~ended /\ errors > 0) => ENABLED UpdateFsErr)
    /\ (~ended /\ events # <<>>)
           ~> (ended \/ last.op \in {"fsReload", "fsIgnore"})
    /\ (~ended /\ errors > 0) ~> (ended \/ last.op = "fsErr")

\* a change event was handled while the focus was on the confirmation button
C15_Witness ==
    /\ last.op \in {"fsReload", "fsIgnore"} /\ focus = acceptView
    /\ events = <<>> /\ ~ended

(***************************************************************************)
(* C16  Handling a watcher error stores it in err, leaves the tree, the    *)
(* watches, the flattened view and the focus as they were, does not end    *)
(* the session, and leaves one listener armed and the pending change       *)
(* events in place.                                                        *)
(***************************************************************************)
C16_WatcherErrorSurfaced ==
    [][UpdateFsErr
          => /\ err' # NoError
             /\ tree' = tree /\ watcher' = watcher
             /\ flatItems' = flatItems /\ focus' = focus
             /\ ~ended' /\ ~quitting'
             /\ listeners' = 1 /\ events' = events
      ]_vars

\* a watcher error was handled while the request was being edited
C16_Witness ==
    /\ last.op = "fsErr" /\ err # NoError
    /\ focus = textAreaView /\ Len(flatItems) > 2

(***************************************************************************)
(* Vocabulary of the view: a node other than the root is visible when      *)
(* every directory above it is expanded.                                   *)
(***************************************************************************)
Ancestors(n) == {SubSeq(n, 1, k) : k \in 1..(Len(n) - 1)}
Visible(t, n) == \A a \in Ancestors(n) : a \in DOMAIN t /\ t[a].expanded
FlatNodes(f) == [i \in 1..Len(f) |-> f[i].node]
Count(seq, x) == Cardinality({i \in 1..Len(seq) : seq[i] = x})

\* the rows a view of t shows: the visible nodes below the root in depth-first
\* pre-order, each at the depth of its path below the root's children
VisibleRows(t) ==
    LET rows == SelectSeq(PreOrder(t, Root),
                          LAMBDA n : n # Root /\ Visible(t, n))
    IN  [i \in 1..Len(rows) |-> [node |-> rows[i], depth |-> Len(rows[i]) - 2]]

(***************************************************************************)
(* C17  Flatten respects collapse.  As claimed: for every node with        *)
(* expanded = FALSE, flatten(root) holds exactly one entry for the node    *)
(* and none for any of its descendants.                                    *)
(***************************************************************************)
C17_CollapsedOneEntry ==
    \A n \in DOMAIN tree \ {Root} :
        ~tree[n].expanded
            => /\ Count(FlatNodes(flatten(tree)), n) = 1
               /\ \A d \in Descendants(tree, n) :
                      Count(FlatNodes(flatten(tree)), d) = 0

(***************************************************************************)
(* C17, amended: for every node with expanded = FALSE, flatten(root)       *)
(* holds exactly one entry for the node when every directory above it is   *)
(* expanded and none otherwise, and holds no entry for any of its          *)
(* descendants.                                                            *)
(***************************************************************************)
C17_CollapsedVisibleOneEntry ==
    \A n \in DOMAIN tree \ {Root} :
        ~tree[n].expanded
            => /\ Count(FlatNodes(flatten(tree)), n)
                      = (IF Visible(tree, n) THEN 1 ELSE 0)
               /\ \A d \in Descendants(tree, n) :
                      Count(FlatNodes(flatten(tree)), d) = 0

\* r/a is collapsed over r/a/y, which is expanded, and r/a/y/z
C17_Witness ==
    /\ PathA \in DOMAIN tree /\ ~tree[PathA].expanded
    /\ PathZ \in Descendants(tree, PathA) /\ tree[PathY].expanded
    /\ FlatNodes(flatten(tree)) = <<PathA, PathB>>

(***************************************************************************)
(* C18  Selection frame: a selection toggle on the row of node N changes   *)
(* the selected flag of N and of N's loaded descendants only: the set of   *)
(* nodes, every node's isDir, expanded, children and childrenLoaded, the   *)
(* selected flag of every node outside N's subtree, the watches and the    *)
(* flattened view stay as they were.                                       *)
(***************************************************************************)
C18_SelectionFrame ==
    [][last'.op = "space"
          => LET n == last'.node
                 sub == {n} \cup Descendants(tree, n)
             IN  /\ DOMAIN tree' = DOMAIN tree
                 /\ \A q \in DOMAIN tree :
                        /\ tree'[q].isDir = tree[q].isDir
                        /\ tree'[q].expanded = tree[q].expanded
                        /\ tree'[q].children = tree[q].children
                        /\ tree'[q].childrenLoaded = tree[q].childrenLoaded
                        /\ q \notin sub => tree'[q].selected = tree[q].selected
                 /\ flatItems' = flatItems
                 /\ watcher' = watcher
      ]_vars

\* r/a/y, the only child of r/a, was deselected on its own row and r/a is
\* still selected
C18_Witness ==
    /\ last.op = "space" /\ last.node = PathY /\ ~last.on
    /\ tree[PathA].selected /\ tree[PathA].children = <<PathY>>

(***************************************************************************)
(* C19  View consistency: in every state the stored flatItems equals       *)
(* flatten(root) of the current tree, which is the sequence of the visible *)
(* nodes in depth-first pre-order with their depths.                       *)
(***************************************************************************)
C19_ViewConsistency ==
    /\ flatItems = flatten(tree)
    /\ flatItems = VisibleRows(tree)

\* a change event reloaded the expanded r/a after r/a/y was removed: the row
\* of r/a/y is gone with its node
C19_Witness ==
    /\ last.op = "fsReload" /\ last.node = PathA /\ last.evop = "Remove"
    /\ tree[PathA].expanded /\ PathY \notin DOMAIN tree
    /\ FlatNodes(flatItems) = <<PathA, PathB>>

(***************************************************************************)
(* C20  Reload discards subtree state: right after a load or reload of     *)
(* directory D whose ReadDir succeeded (newModel's load of the root        *)
(* included), every child of D is a fresh node: not selected, not          *)
(* expanded, not loaded, without children, whatever D.selected is.         *)
(***************************************************************************)
SuccessfulLoad == last.op \in {"enterLoad", "fsReload"} /\ ReadDir(last.node).ok

C20_ReloadFresh ==
    /\ last.op = "init"
           => \A c \in Range(tree[Root].children) : tree[c] = NewNode(EntryIsDir(c))
    /\ SuccessfulLoad
           => /\ tree[last.node].childrenLoaded
              /\ \A c \in Range(tree[last.node].children) :
                     tree[c] = NewNode(EntryIsDir(c))

\* a change event reloaded r/a while r/a was selected: its child r/a/y is not
\* selected and not loaded, though r/a/y/z is on disk
C20_Witness ==
    /\ SuccessfulLoad /\ last.op = "fsReload" /\ last.node = PathA
    /\ tree[PathA].selected /\ tree[PathA].children = <<PathY>>
    /\ ~tree[PathY].selected /\ ~tree[PathY].childrenLoaded /\ PathZ \in disk

====
